---- MODULE Spec2Model ----
(***************************************************************************)
(* Model of the surrogate prediction engine of exhaustflow                 *)
(* (src/services/surrogateModel.ts, calculateSimulation) and of the calls  *)
(* the application makes to it (src/App.tsx, the useMemo that recomputes   *)
(* the result whenever inputs, dataset or chiller specs change).           *)
(*                                                                         *)
(* Numbers.  The program computes with IEEE doubles; the model computes    *)
(* with exact decimal fixed point, one resolution per quantity:            *)
(*   Kelvin temperatures (dataset T0..T19)      hundredths of a kelvin     *)
(*   Fahrenheit temperatures and rises          hundredths of a degree F   *)
(*   wind speed m/s, row/col spacing ft, degrees   whole units             *)
(*   flow: inputs.flowRate in whole kCFM, dataset flow in CFM              *)
(*   deratingSlope                              tenths of %/F              *)
(*   deratingPct, capacityLossPct               thousandths of a percent   *)
(*   ratedCapacity, designLoad                  whole tons                 *)
(*   effectiveCapacity, totalRatedCapacity,                                *)
(*   totalEffectiveCapacity                     1/100000 ton               *)
(*   redundancyStatus                           1/100000 chiller           *)
(*   squared distance                           multiplied by DistScale    *)
(*   benchmark length                           millimetres                *)
(* inputs, dataset and specs are the argument objects as they are once the  *)
(* latest call has returned; passed holds them as they were handed to it.   *)
(* loader is the Supabase table and the outcome of the latest               *)
(* fetchBaselineDataset, with the dataset state of the application;         *)
(* clampCall is one call of clamp; api is the prediction-API state of the   *)
(* application (debounce timers, requests in flight, apiRow).               *)
(* Dataset temperatures are taken on the 0.05 K grid around 273.15 K, so   *)
(* that kelvinToF is exact in hundredths of a degree F; dataset flows are  *)
(* multiples of 1000 CFM.   toFixed(1) is rounding to one decimal, ties     *)
(* away from zero.                                                         *)
(***************************************************************************)
EXTENDS Integers, Sequences, FiniteSets, TLC

VARIABLES inputs, dataset, specs, result, prev, calls, passed, loader, clampCall, api

vars == <<inputs, dataset, specs, result, prev, calls, passed, loader, clampCall, api>>

(***************************************************************************)
(* Constants of surrogateModel.ts                                          *)
(***************************************************************************)
DATA_START_INDEX == 4
DATA_AMBIENT_K == 31315
DATASET_SIZE == 20
BASE_ROWS == 4
BASE_COLS == 5
CHILLER_LENGTH_FT == 16
MAX_VALUE == 2147483647

\* DefaultSpecs with the design load of the application's initial specs
DefaultSpecsAppLoad ==
    [ratedCapacity |-> 500, ratedEnteringTemp |-> 9500, deratingSlope |-> 15,
     lockoutTemp |-> 12700, designLoad |-> 9500]

\* specs || { ... } : the object substituted for absent specs
DefaultSpecs ==
    [ratedCapacity |-> 500, ratedEnteringTemp |-> 9500, deratingSlope |-> 15,
     lockoutTemp |-> 12700, designLoad |-> 2000]

\* An absent (null / undefined) specs argument
NoSpecs == [isNull |-> TRUE]

\* An absent (null / undefined) dataset argument
NoDataset == [isNull |-> TRUE, rows |-> <<>>]

SomeDataset(rows) == [isNull |-> FALSE, rows |-> rows]

(***************************************************************************)
(* Arithmetic helpers                                                      *)
(***************************************************************************)
Max(a, b) == IF a >= b THEN a ELSE b
Min(a, b) == IF a <= b THEN a ELSE b
Abs(a) == IF a >= 0 THEN a ELSE -a
Sq(a) == a * a

\* x.toFixed(1) read back with parseFloat, for x given in 1/unit:
\* the nearest multiple of unit/10, ties away from zero
ToFixed1(x, unit) ==
    LET q == unit \div 10
    IN  IF x >= 0 THEN ((x + q \div 2) \div q) * q
        ELSE -(((-x + q \div 2) \div q) * q)

\* (num / den).toFixed(1) for num >= 0, den > 0, num in 1/unit
ToFixed1Ratio(num, den, unit) ==
    LET q == unit \div 10
    IN  ((2 * num + q * den) \div (2 * q * den)) * q

\* clamp with Math.min and Math.max exchanged
clampMinMaxExchanged(value, min, max) == Max(Min(value, min), max)

\* datasetRanges.ts: Math.min(Math.max(value, min), max)
clamp(value, min, max) == Min(Max(value, min), max)

\* (K - 273.15) * (9 / 5) + 32
kelvinToF(K) == ((K - 27315) * 9) \div 5 + 3200

(***************************************************************************)
(* Orientation fold and nearest-row lookup                                 *)
(***************************************************************************)
\* Orientation without the fold of (90, 180) back onto [0, 90]
OrientationUnfolded(windDirection) == windDirection % 180

Orientation(windDirection) ==
    LET o == windDirection % 180
    IN  IF o > 90 THEN 180 - o ELSE o

\* squared distances are carried multiplied by DistScale, the least common
\* multiple of the squared divisors 10, 120 (thousands of CFM), 90 and 20
DistScale == Sq(360)

\* (dSpeed^2 + dFlow^2 + dOrient^2 + dSpacing^2) * DistScale
DistSq(row, in) ==
    LET inputSpeed == in.windSpeed
        inputFlow == in.flowRate * 1000
        inputRowSpacing == in.rowSpacing
        orientation == Orientation(in.windDirection)
        dSpeed2 == Sq(row[1] - inputSpeed) * (DistScale \div Sq(10))
        dFlow2 == Sq((row[2] - inputFlow) \div 1000)
                     * (DistScale \div Sq(120000 \div 1000))
        dOrient2 == Sq(row[3] - orientation) * (DistScale \div Sq(90))
        dSpacing2 == Sq(row[4] - inputRowSpacing) * (DistScale \div Sq(20))
    IN  dSpeed2 + dFlow2 + dOrient2 + dSpacing2

\* Closer with the comparison made non-strict: the last of several rows at
\* the minimal distance would win
CloserOrEqual(distSq, minDistance) == distSq <= minDistance

\* if (distSq < minDistance) { ... }
Closer(distSq, minDistance) == distSq < minDistance

RECURSIVE LookupLoop(_, _, _, _)
LookupLoop(rows, in, i, best) ==
    IF i >= Len(rows) THEN best
    ELSE LET distSq == DistSq(rows[i + 1], in)
         IN  LookupLoop(rows, in, i + 1,
                 IF Closer(distSq, best.minDistance)
                 THEN [minDistance |-> distSq, matchedRowIndex |-> i]
                 ELSE best)

Lookup(rows, in) ==
    LookupLoop(rows, in, 0, [minDistance |-> MAX_VALUE, matchedRowIndex |-> 0])

(***************************************************************************)
(* Grid projection                                                         *)
(***************************************************************************)
GridRow(i, in) == i \div in.columns
GridCol(i, in) == i % in.columns

\* SafeIndex without the clamp to 0..DATASET_SIZE - 1
SafeIndexUnclamped(i, in) == (GridRow(i, in) * BASE_COLS) + GridCol(i, in)

SafeIndex(i, in) ==
    LET dataIndex == (GridRow(i, in) * BASE_COLS) + GridCol(i, in)
    IN  Min(Max(dataIndex, 0), DATASET_SIZE - 1)

\* RawTempK reading one slot too early (DATA_START_INDEX off by one)
RawTempKShifted(closestRow, i, in) ==
    LET k == DATA_START_INDEX + SafeIndex(i, in)
    IN  IF k <= Len(closestRow) THEN closestRow[k] ELSE DATA_AMBIENT_K

\* closestRow[DATA_START_INDEX + safeIndex] ?? DATA_AMBIENT_K
RawTempK(closestRow, i, in) ==
    LET k == DATA_START_INDEX + SafeIndex(i, in) + 1
    IN  IF k <= Len(closestRow) THEN closestRow[k] ELSE DATA_AMBIENT_K

\* inputs.layout[i] ?? true
IsActive(i, in) ==
    IF i + 1 <= Len(in.layout) THEN in.layout[i + 1] ELSE TRUE

(***************************************************************************)
(* Per-cell capacity analysis of an active cell                            *)
(***************************************************************************)
\* IsLockedOut with a strict comparison
IsLockedOutStrict(finalTempF, safeSpecs) == finalTempF > safeSpecs.lockoutTemp

IsLockedOut(finalTempF, safeSpecs) == finalTempF >= safeSpecs.lockoutTemp

\* IsAtRisk with the comparison turned round
IsAtRiskFlipped(finalTempF, safeSpecs) == finalTempF < safeSpecs.lockoutTemp - 500

IsAtRisk(finalTempF, safeSpecs) == finalTempF >= safeSpecs.lockoutTemp - 500

\* IsDegraded with a non-strict comparison
IsDegradedOrEqual(deratingPct) == deratingPct >= 10000

IsDegraded(deratingPct) == deratingPct > 10000

\* LossPct without the floor of the excess temperature at zero
LossPctSigned(finalTempF, safeSpecs) ==
    (finalTempF - safeSpecs.ratedEnteringTemp) * safeSpecs.deratingSlope

\* excessTemp = Math.max(0, finalTempF - ratedEnteringTemp);
\* lossPct = excessTemp * deratingSlope
LossPct(finalTempF, safeSpecs) ==
    LET excessTemp == Max(0, finalTempF - safeSpecs.ratedEnteringTemp)
    IN  excessTemp * safeSpecs.deratingSlope

\* CellCapacity decided on the temperature as displayed (one decimal)
CellCapacityOfDisplayed(finalTempF, safeSpecs) ==
    LET shownTempF == ToFixed1(finalTempF, 100)
    IN  IF IsLockedOut(shownTempF, safeSpecs)
        THEN [effectiveCap |-> 0, deratingPct |-> 100000, status |-> "LockedOut"]
        ELSE LET deratingPct == Min(LossPct(shownTempF, safeSpecs), 100000)
                 effectiveCap == safeSpecs.ratedCapacity * (100000 - deratingPct)
             IN  [effectiveCap |-> effectiveCap,
                  deratingPct |-> deratingPct,
                  status |-> IF IsAtRisk(shownTempF, safeSpecs) THEN "AtRisk"
                             ELSE IF IsDegraded(deratingPct) THEN "Degraded"
                             ELSE "Healthy"]

\* the capacity, derating and status of one active cell
CellCapacity(finalTempF, safeSpecs) ==
    IF IsLockedOut(finalTempF, safeSpecs)
    THEN [effectiveCap |-> 0, deratingPct |-> 100000, status |-> "LockedOut"]
    ELSE LET deratingPct == Min(LossPct(finalTempF, safeSpecs), 100000)
             effectiveCap == safeSpecs.ratedCapacity * (100000 - deratingPct)
         IN  [effectiveCap |-> effectiveCap,
              deratingPct |-> deratingPct,
              status |-> IF IsAtRisk(finalTempF, safeSpecs) THEN "AtRisk"
                         ELSE IF IsDegraded(deratingPct) THEN "Degraded"
                         ELSE "Healthy"]

\* Accumulated that leaves the capacity of at-risk cells out of the total
AccumulatedSkippingAtRisk(cap) ==
    IF cap.status = "AtRisk" THEN 0 ELSE cap.effectiveCap

\* the contribution of one cell to totalEffectiveCapacity
Accumulated(cap) == cap.effectiveCap

\* TempRiseF that measures the rise from the rated 95 F when eftBase is off
TempRiseFFromEftBase(finalTempF, in) ==
    finalTempF - (IF in.eftBase THEN in.ambientTemp ELSE 9500)

\* const tempRiseF = finalTempF - inputs.ambientTemp
TempRiseF(finalTempF, in) == finalTempF - in.ambientTemp

\* RiseForStats that lets negative rises into the statistics
RiseForStatsUnfloored(tempRiseF) == tempRiseF

\* const riseForStats = Math.max(0, tempRiseF)
RiseForStats(tempRiseF) == Max(0, tempRiseF)

\* NodeTempRise that stores the floored rise on the node
NodeTempRiseFloored(tempRiseF) == ToFixed1(Max(0, tempRiseF), 100)

\* tempRise: parseFloat(tempRiseF.toFixed(1))
NodeTempRise(tempRiseF) == ToFixed1(tempRiseF, 100)

\* one iteration of the grid loop: the node pushed and the updated aggregators
GridStep(acc, i, closestRow, in, safeSpecs) ==
    LET finalTempF == kelvinToF(RawTempK(closestRow, i, in))
        tempRiseF == TempRiseF(finalTempF, in)
        riseForStats == RiseForStats(tempRiseF)
        isActive == IsActive(i, in)
        cap == IF isActive THEN CellCapacity(finalTempF, safeSpecs)
               ELSE [effectiveCap |-> 0, deratingPct |-> 0, status |-> "Healthy"]
        node == [id |-> <<GridRow(i, in), GridCol(i, in)>>,
                 index |-> i,
                 row |-> GridRow(i, in),
                 col |-> GridCol(i, in),
                 tempRise |-> NodeTempRise(tempRiseF),
                 totalTemp |-> IF isActive THEN ToFixed1(finalTempF, 100)
                               ELSE in.ambientTemp,
                 isMax |-> FALSE,
                 isActive |-> isActive,
                 effectiveCapacity |-> cap.effectiveCap,
                 deratingPct |-> ToFixed1(cap.deratingPct, 1000),
                 status |-> cap.status]
    IN  IF isActive
        THEN [nodes |-> Append(acc.nodes, node),
              globalMaxRiseF |-> Max(acc.globalMaxRiseF, riseForStats),
              totalRiseSumF |-> acc.totalRiseSumF + riseForStats,
              activeChillerCount |-> acc.activeChillerCount + 1,
              totalEffectiveCapacity |-> acc.totalEffectiveCapacity + Accumulated(cap),
              chillersAtRisk |-> acc.chillersAtRisk
                                   + (IF cap.status = "AtRisk" THEN 1 ELSE 0),
              chillersLockedOut |-> acc.chillersLockedOut
                                   + (IF cap.status = "LockedOut" THEN 1 ELSE 0)]
        ELSE [acc EXCEPT !.nodes = Append(acc.nodes, node)]

RECURSIVE GridLoop(_, _, _, _, _)
GridLoop(acc, i, closestRow, in, safeSpecs) ==
    IF i >= in.rows * in.columns THEN acc
    ELSE GridLoop(GridStep(acc, i, closestRow, in, safeSpecs),
                  i + 1, closestRow, in, safeSpecs)

\* IsWithinMax without the 0.2 F tolerance
IsWithinMaxNoTolerance(tempRise, globalMaxRiseF) == tempRise >= globalMaxRiseF

\* n.tempRise >= globalMaxRiseF - 0.2
IsWithinMax(tempRise, globalMaxRiseF) == tempRise >= globalMaxRiseF - 20

\* MarkMax that does not look at isActive
MarkMaxAnyCell(nodes, globalMaxRiseF, activeChillerCount) ==
    IF activeChillerCount > 0
    THEN [k \in 1..Len(nodes) |->
            IF IsWithinMax(nodes[k].tempRise, globalMaxRiseF)
            THEN [nodes[k] EXCEPT !.isMax = TRUE] ELSE nodes[k]]
    ELSE nodes

\* nodes.forEach(n => { if (n.isActive && n.tempRise >= globalMaxRiseF - 0.2) n.isMax = true })
MarkMax(nodes, globalMaxRiseF, activeChillerCount) ==
    IF activeChillerCount > 0
    THEN [k \in 1..Len(nodes) |->
            IF nodes[k].isActive /\ IsWithinMax(nodes[k].tempRise, globalMaxRiseF)
            THEN [nodes[k] EXCEPT !.isMax = TRUE] ELSE nodes[k]]
    ELSE nodes

(***************************************************************************)
(* Aggregate risk analysis                                                 *)
(***************************************************************************)
\* RedundancyLabel that demands strictly more than one spare chiller
RedundancyLabelStrictSpare(chillersLockedOut, chillersAtRisk, totalEffectiveCapacity, effectiveSpareCapacity, redundancyStatus, safeSpecs) ==
    IF chillersLockedOut > 0
       \/ totalEffectiveCapacity < safeSpecs.designLoad * 100000
    THEN "CRITICAL"
    ELSE IF effectiveSpareCapacity < 0 THEN "LOST"
    ELSE IF chillersAtRisk > 0 \/ redundancyStatus <= 100000 THEN "ERODED"
    ELSE "INTACT"

RedundancyLabel(chillersLockedOut, chillersAtRisk, totalEffectiveCapacity, effectiveSpareCapacity, redundancyStatus, safeSpecs) ==
    IF chillersLockedOut > 0
       \/ totalEffectiveCapacity < safeSpecs.designLoad * 100000
    THEN "CRITICAL"
    ELSE IF effectiveSpareCapacity < 0 THEN "LOST"
    ELSE IF chillersAtRisk > 0 \/ redundancyStatus < 100000 THEN "ERODED"
    ELSE "INTACT"

\* Risk that forgets the ERODED case
RiskWithoutEroded(redundancyLabel) ==
    LET r2 == IF redundancyLabel = "LOST" THEN "High" ELSE "Low"
    IN  IF redundancyLabel = "CRITICAL" THEN "Critical" ELSE r2

Risk(redundancyLabel) ==
    LET r1 == IF redundancyLabel = "ERODED" THEN "Moderate" ELSE "Low"
        r2 == IF redundancyLabel = "LOST" THEN "High" ELSE r1
    IN  IF redundancyLabel = "CRITICAL" THEN "Critical" ELSE r2

\* TotalRatedCapacity that rates every chiller at the default 500 tons
TotalRatedCapacityOfDefault(activeChillerCount, safeSpecs) ==
    activeChillerCount * 500 * 100000

\* const totalRatedCapacity = activeChillerCount * safeSpecs.ratedCapacity
TotalRatedCapacity(activeChillerCount, safeSpecs) ==
    activeChillerCount * safeSpecs.ratedCapacity * 100000

\* EffectiveSpareCapacity that keeps one rated chiller in reserve
EffectiveSpareCapacityAfterReserve(totalEffectiveCapacity, safeSpecs) ==
    totalEffectiveCapacity - safeSpecs.designLoad * 100000
        - safeSpecs.ratedCapacity * 100000

\* const effectiveSpareCapacity = totalEffectiveCapacity - safeSpecs.designLoad
EffectiveSpareCapacity(totalEffectiveCapacity, safeSpecs) ==
    totalEffectiveCapacity - safeSpecs.designLoad * 100000

Capacity(acc, safeSpecs) ==
    LET totalRatedCapacity == TotalRatedCapacity(acc.activeChillerCount, safeSpecs)
        totalEffectiveCapacity == acc.totalEffectiveCapacity
        \* ((rated - effective) / rated) * 100 in thousandths of a percent;
        \* rated is a multiple of 100000, which is divided out first
        capacityLossPct ==
            IF totalRatedCapacity > 0
            THEN (totalRatedCapacity - totalEffectiveCapacity)
                     \div (totalRatedCapacity \div 100000)
            ELSE 0
        effectiveSpareCapacity ==
            EffectiveSpareCapacity(totalEffectiveCapacity, safeSpecs)
        redundancyStatus == effectiveSpareCapacity \div safeSpecs.ratedCapacity
    IN  [totalRatedCapacity |-> totalRatedCapacity,
         totalEffectiveCapacity |-> totalEffectiveCapacity,
         capacityLossPct |-> capacityLossPct,
         redundancyStatus |-> redundancyStatus,
         redundancyLabel |->
             RedundancyLabel(acc.chillersLockedOut, acc.chillersAtRisk,
                             totalEffectiveCapacity, effectiveSpareCapacity,
                             redundancyStatus, safeSpecs),
         chillersAtRisk |-> acc.chillersAtRisk,
         chillersLockedOut |-> acc.chillersLockedOut]

(***************************************************************************)
(* Watson & Charentenay benchmark                                          *)
(***************************************************************************)
\* Math.cos / Math.sin of whole multiples of 45 degrees, times 10000
CosE4(deg) ==
    LET d == deg % 360
    IN  CASE d = 0 -> 10000
          [] d = 45 \/ d = 315 -> 7071
          [] d = 90 \/ d = 270 -> 0
          [] d = 135 \/ d = 225 -> -7071
          [] d = 180 -> -10000

SinE4(deg) == CosE4(deg + 270)

\* 8.7 * max((Lpc_m - 38.9) / 26.8, -1) + 9.0 and its companion, in 1/1000 C
Watson(slope10, offset1000, LpcMm) ==
    IF LpcMm - 38900 < -26800 THEN offset1000 - slope10 * 100
    ELSE (slope10 * 100 * (LpcMm - 38900)) \div 26800 + offset1000

\* toDeltaF(Math.max(c, 0)).toFixed(1), from 1/1000 C to 1/100 F
DeltaFFixed(c1000) == ToFixed1((Max(c1000, 0) * 18) \div 100, 100)

\* Benchmark that measures the array length over the rows holding an active
\* cell instead of inputs.rows
BenchmarkOfActiveRows(in) ==
    LET activeRows == Cardinality({GridRow(i, in) :
                          i \in {c \in 0..(in.rows * in.columns - 1) : IsActive(c, in)}})
        arrayLengthFt10 ==
            10 * ((activeRows * CHILLER_LENGTH_FT) + ((activeRows - 1) * in.rowSpacing))
        arrayWidthFt10 ==
            (in.columns * 75) + ((in.columns - 1) * in.colSpacing * 10)
        LpcFtE5 == Abs(arrayLengthFt10 * CosE4(in.windDirection))
                     + Abs(arrayWidthFt10 * SinE4(in.windDirection))
        LpcMm == ((LpcFtE5 \div 100) * 3048) \div 10000
    IN  [source |-> "Watson & Charentenay (2019)",
         effectiveLengthMeters |-> ToFixed1(LpcMm, 1000),
         predictedMaxRiseF |-> DeltaFFixed(Watson(187, 19500, LpcMm)),
         predictedAvgRiseF |-> DeltaFFixed(Watson(87, 9000, LpcMm))]

Benchmark(in) ==
    LET arrayLengthFt10 ==
            10 * ((in.rows * CHILLER_LENGTH_FT) + ((in.rows - 1) * in.rowSpacing))
        arrayWidthFt10 ==
            (in.columns * 75) + ((in.columns - 1) * in.colSpacing * 10)
        LpcFtE5 == Abs(arrayLengthFt10 * CosE4(in.windDirection))
                     + Abs(arrayWidthFt10 * SinE4(in.windDirection))
        LpcMm == ((LpcFtE5 \div 100) * 3048) \div 10000
    IN  [source |-> "Watson & Charentenay (2019)",
         effectiveLengthMeters |-> ToFixed1(LpcMm, 1000),
         predictedMaxRiseF |-> DeltaFFixed(Watson(187, 19500, LpcMm)),
         predictedAvgRiseF |-> DeltaFFixed(Watson(87, 9000, LpcMm))]

(***************************************************************************)
(* calculateSimulation                                                     *)
(***************************************************************************)
SafeSpecs(sp) == IF sp = NoSpecs THEN DefaultSpecs ELSE sp

\* EmptyCapacity classified like a fleet that cannot carry any load
EmptyCapacityCritical ==
    [totalRatedCapacity |-> 0,
     totalEffectiveCapacity |-> 0,
     capacityLossPct |-> 0,
     redundancyStatus |-> 0,
     redundancyLabel |-> "CRITICAL",
     chillersAtRisk |-> 0,
     chillersLockedOut |-> 0]

\* the capacity block of the result returned for an empty or absent dataset
EmptyCapacity ==
    [totalRatedCapacity |-> 0,
     totalEffectiveCapacity |-> 0,
     capacityLossPct |-> 0,
     redundancyStatus |-> 0,
     redundancyLabel |-> "INTACT",
     chillersAtRisk |-> 0,
     chillersLockedOut |-> 0]

\* the result returned for an empty or absent dataset
EmptyResult(in) ==
    [grid |-> <<>>,
     maxTempRise |-> 0,
     maxTotalTemp |-> in.ambientTemp,
     avgTempRise |-> 0,
     riskLevel |-> "Low",
     benchmark |-> [source |-> "Watson & Charentenay (2019)",
                    effectiveLengthMeters |-> 0,
                    predictedMaxRiseF |-> 0,
                    predictedAvgRiseF |-> 0],
     capacity |-> EmptyCapacity,
     matchedRowIndex |-> -1]

\* if (!dataset || dataset.length === 0)
IsEmptyDataset(ds) == ds.isNull \/ Len(ds.rows) = 0

calculateSimulation(in, ds, sp) ==
    LET safeSpecs == SafeSpecs(sp)
    IN  IF IsEmptyDataset(ds) THEN EmptyResult(in)
        ELSE
        LET matchedRowIndex == Lookup(ds.rows, in).matchedRowIndex
            closestRow == ds.rows[matchedRowIndex + 1]
            acc == GridLoop([nodes |-> <<>>, globalMaxRiseF |-> 0,
                             totalRiseSumF |-> 0, activeChillerCount |-> 0,
                             totalEffectiveCapacity |-> 0, chillersAtRisk |-> 0,
                             chillersLockedOut |-> 0],
                            0, closestRow, in, safeSpecs)
            capacity == Capacity(acc, safeSpecs)
        IN  [grid |-> MarkMax(acc.nodes, acc.globalMaxRiseF, acc.activeChillerCount),
             maxTempRise |-> ToFixed1(acc.globalMaxRiseF, 100),
             maxTotalTemp |-> ToFixed1(in.ambientTemp + acc.globalMaxRiseF, 100),
             avgTempRise |-> IF acc.activeChillerCount > 0
                             THEN ToFixed1Ratio(acc.totalRiseSumF,
                                                acc.activeChillerCount, 100)
                             ELSE 0,
             riskLevel |-> Risk(capacity.redundancyLabel),
             benchmark |-> Benchmark(in),
             capacity |-> capacity,
             matchedRowIndex |-> matchedRowIndex]

\* AfterCall for an engine that stores the defaults into absent specs
AfterCallDefaultingSpecs(in, ds, sp) ==
    [inputs |-> in, dataset |-> ds, specs |-> SafeSpecs(sp)]

\* the argument objects once calculateSimulation has returned: the function
\* assigns to no property of inputs, to no row of dataset and to no field of
\* specs (its writes go to the locals and to the nodes it creates)
AfterCall(in, ds, sp) == [inputs |-> in, dataset |-> ds, specs |-> sp]

(***************************************************************************)
(* The arguments the engine is called with                                 *)
(***************************************************************************)
MaxRows == 2
MaxCalls == 3

\* T0..T19 of the reference rows, hundredths of a kelvin:
\* 104.00 F everywhere; 95.00 F rising by 0.99 F per slot; 122.00 F rising by
\* 1.80 F per column; 86.00 F rising by 0.18 F per slot
UniformTemps == [i \in 1..20 |-> 31315]
GradientTemps == [i \in 1..20 |-> 30815 + 55 * (i - 1)]
HotTemps == [i \in 1..20 |-> 32315 + 100 * ((i - 1) % 5)]
CoolTemps == [i \in 1..20 |-> 30315 + 10 * (i - 1)]

\* [wind_speed, flow_rate, orientation, spacing, T0, ..., T19];
\* RowD has the four parameters of RowA; RowE is RowA but for T3 (122.00 F)
RowA == <<4, 140000, 45, 12>> \o UniformTemps
RowB == <<6, 130000, 45, 12>> \o GradientTemps
RowC == <<4, 140000, 90, 16>> \o HotTemps
RowD == <<4, 140000, 45, 12>> \o CoolTemps

RowE == [RowA EXCEPT ![DATA_START_INDEX + 3 + 1] = 32315]

RowPool == {RowA, RowB, RowC, RowD, RowE}

AllOn == [i \in 1..20 |-> TRUE]
OneOff == [i \in 1..20 |-> i # 4]
AllOff == [i \in 1..20 |-> FALSE]

\* the inputs the application starts with (App.tsx useState)
InitialInputs ==
    [rows |-> 4, columns |-> 5, rowSpacing |-> 12, colSpacing |-> 8,
     windSpeed |-> 4, windDirection |-> 45, flowRate |-> 140,
     ambientTemp |-> 10400, layout |-> AllOn,
     eftBase |-> TRUE, fanExtension |-> FALSE]

InputsPool ==
    {InitialInputs,
     [InitialInputs EXCEPT !.windDirection = 315],
     [InitialInputs EXCEPT !.colSpacing = 12],
     [InitialInputs EXCEPT !.eftBase = FALSE],
     [InitialInputs EXCEPT !.eftBase = FALSE, !.fanExtension = TRUE],
     [InitialInputs EXCEPT !.windSpeed = 6, !.flowRate = 130],
     [InitialInputs EXCEPT !.windDirection = 90, !.rowSpacing = 16],
     [InitialInputs EXCEPT !.windSpeed = 5, !.flowRate = 135],
     [InitialInputs EXCEPT !.ambientTemp = 9500],
     [InitialInputs EXCEPT !.ambientTemp = 8600],
     [InitialInputs EXCEPT !.ambientTemp = 10404],
     [InitialInputs EXCEPT !.layout = OneOff],
     [InitialInputs EXCEPT !.layout = AllOff],
     [InitialInputs EXCEPT !.rows = 5, !.columns = 4]}

\* the specs the application starts with (App.tsx useState)
InitialSpecs ==
    [ratedCapacity |-> 500, ratedEnteringTemp |-> 9500, deratingSlope |-> 15,
     lockoutTemp |-> 12700, designLoad |-> (4 * 5 - 1) * 500]

SpecsPool ==
    {[InitialSpecs EXCEPT !.lockoutTemp = l, !.designLoad = 2000] :
        l \in {10400, 10900, 12700}}
    \cup {InitialSpecs,
          [InitialSpecs EXCEPT !.ratedEnteringTemp = 9400, !.deratingSlope = 10,
                                 !.designLoad = 8500],
          [InitialSpecs EXCEPT !.deratingSlope = 200],
          [InitialSpecs EXCEPT !.ratedCapacity = 400, !.designLoad = 2000],
          NoSpecs}

\* the datasets a next call may be given instead of ds: none, an empty one,
\* a single reference row, or ds with one more row
DatasetsAfter(ds) ==
    {NoDataset, SomeDataset(<<>>)}
    \cup {SomeDataset(<<r>>) : r \in RowPool}
    \cup (IF ~ds.isNull /\ Len(ds.rows) < MaxRows
          THEN {SomeDataset(Append(ds.rows, r)) : r \in RowPool} ELSE {})

\* the bundled dataset the application starts with
BundledDatasets == {SomeDataset(<<RowA, RowB>>), SomeDataset(<<RowC, RowD>>)}

NoCall == [isNull |-> TRUE]

Call == [isNull |-> FALSE, inputs |-> inputs, dataset |-> dataset,
         specs |-> specs, result |-> result]

\* the arguments as handed to a call
Passed(in, ds, sp) == [inputs |-> in, dataset |-> ds, specs |-> sp]

\* no table fetched, no clamp called, no prediction API in use
NoLoader == [isNull |-> TRUE]
NoClampCall == [isNull |-> TRUE]
NoApi == [isNull |-> TRUE]

InitEngine ==
    /\ \E ds \in BundledDatasets :
          /\ inputs = AfterCall(InitialInputs, ds, InitialSpecs).inputs
          /\ dataset = AfterCall(InitialInputs, ds, InitialSpecs).dataset
          /\ specs = AfterCall(InitialInputs, ds, InitialSpecs).specs
          /\ passed = Passed(InitialInputs, ds, InitialSpecs)
          /\ result = calculateSimulation(InitialInputs, ds, InitialSpecs)
    /\ prev = NoCall
    /\ calls = 1

Init ==
    /\ InitEngine
    /\ loader = NoLoader
    /\ clampCall = NoClampCall
    /\ api = NoApi

\* one call calculateSimulation(in, ds, sp): the result is recorded, the
\* argument objects are left as the call leaves them
CallEngine(in, ds, sp) ==
    /\ passed' = Passed(in, ds, sp)
    /\ inputs' = AfterCall(in, ds, sp).inputs
    /\ dataset' = AfterCall(in, ds, sp).dataset
    /\ specs' = AfterCall(in, ds, sp).specs
    /\ result' = calculateSimulation(in, ds, sp)
    /\ prev' = Call
    /\ calls' = calls + 1

\* the engine is called again with other inputs
ChangeInputs ==
    /\ calls < MaxCalls
    /\ \E in \in InputsPool \ {inputs} : CallEngine(in, dataset, specs)
    /\ UNCHANGED <<loader, clampCall, api>>

\* the engine is called again with another dataset
ChangeDataset ==
    /\ calls < MaxCalls
    /\ \E ds \in DatasetsAfter(dataset) \ {dataset} : CallEngine(inputs, ds, specs)
    /\ UNCHANGED <<loader, clampCall, api>>

\* the engine is called again with other specs
ChangeSpecs ==
    /\ calls < MaxCalls
    /\ \E sp \in SpecsPool \ {specs} : CallEngine(inputs, dataset, sp)
    /\ UNCHANGED <<loader, clampCall, api>>

Next == ChangeInputs \/ ChangeDataset \/ ChangeSpecs

Spec == Init /\ [][Next]_vars

(***************************************************************************)
(* The Supabase loader (supabase.ts) and the application's load            *)
(***************************************************************************)
\* the value a source record holds in one column: a number, null, a text
\* that is no number, or nothing (the record has no such key)
NumberCell(n) == [kind |-> "number", value |-> n]
NullCell == [kind |-> "null", value |-> 0]
TextCell == [kind |-> "text", value |-> 0]
AbsentCell == [kind |-> "absent", value |-> 0]

\* a JavaScript number: finite, or NaN
Finite(n) == [isNaN |-> FALSE, value |-> n]
NaN == [isNaN |-> TRUE, value |-> 0]

\* row[key] !== undefined && row[key] !== null
IsDefined(cell) == cell.kind \notin {"absent", "null"}

\* Number(x ?? 0)
NumberOrZero(cell) ==
    IF ~IsDefined(cell) THEN Finite(0)
    ELSE IF cell.kind = "number" THEN Finite(cell.value)
    ELSE NaN

\* the names of the columns the first record lacks: a parameter that
\* pickColumn finds undefined, a chiller column whose key is not there
MissingColumns(first) ==
    {<<"param", j>> : j \in {c \in 1..4 : ~IsDefined(first.params[c])}}
    \cup {<<"chiller", i>> : i \in {c \in 1..DATASET_SIZE : first.temps[c].kind = "absent"}}

\* data.map(...): the row [ws, fr, or, sp, ...temps] and the id of a record
PairOf(rec, index) ==
    [row |-> [j \in 1..(4 + DATASET_SIZE) |->
                 IF j <= 4 THEN NumberOrZero(rec.params[j])
                 ELSE NumberOrZero(rec.temps[j - 4])],
     id |-> IF IsDefined(rec.id) THEN rec.id.value ELSE index + 1]

\* p.row.length >= 5 && !p.row.some(isNaN)
IsValidPair(p) ==
    /\ Len(p.row) >= 5
    /\ \A j \in 1..Len(p.row) : ~p.row[j].isNaN

FetchFailed(msg) ==
    [isNull |-> FALSE, ok |-> FALSE, data |-> <<>>, rowCount |-> 0,
     rowIds |-> <<>>, error |-> msg]

\* fetchBaselineDataset on the table content data (a configured client, no
\* transport error)
fetchBaselineDataset(data) ==
    IF Len(data) = 0 THEN FetchFailed("Table is empty or no rows returned.")
    ELSE IF MissingColumns(data[1]) # {} THEN FetchFailed("Table missing columns")
    ELSE
    LET pairs == [k \in 1..Len(data) |-> PairOf(data[k], k - 1)]
        validPairs == SelectSeq(pairs, IsValidPair)
        validRows == [k \in 1..Len(validPairs) |->
                         [j \in 1..Len(validPairs[k].row) |-> validPairs[k].row[j].value]]
        rowIds == [k \in 1..Len(validPairs) |-> validPairs[k].id]
    IN  IF Len(validPairs) = 0 THEN FetchFailed("No valid rows")
        ELSE [isNull |-> FALSE, ok |-> TRUE, data |-> validRows,
              rowCount |-> Len(validRows), rowIds |-> rowIds, error |-> ""]

\* the clamp effect of the application on the four matched inputs
\* (DATABASE_PARAMETER_BOUNDS, flow in kCFM)
ClampInputs(in) ==
    [in EXCEPT !.windSpeed = clamp(@, 0, 10),
               !.flowRate = clamp(@, 30000 \div 1000, 150000 \div 1000),
               !.windDirection = clamp(@, 0, 90),
               !.rowSpacing = clamp(@, 10, 20)]

\* the record of the table that carries a dataset row, without ID column
RecOf(row) ==
    [params |-> [j \in 1..4 |-> NumberCell(row[j])],
     temps |-> [i \in 1..DATASET_SIZE |-> NumberCell(row[4 + i])],
     id |-> AbsentCell]

RecA == RecOf(RowA)
RecB == RecOf(RowB)
\* Chiller 05 is null; Chiller 20 is not in the record; Chiller 01 is a text;
\* Windspeed is null
RecNullTemp == [RecOf(RowC) EXCEPT !.temps[5] = NullCell]
RecAbsentTemp == [RecOf(RowD) EXCEPT !.temps[20] = AbsentCell]
RecTextTemp == [RecOf(RowB) EXCEPT !.temps[1] = TextCell]
RecNullSpeed == [RecOf(RowA) EXCEPT !.params[1] = NullCell]

RecordPool == {RecA, RecB, RecNullTemp, RecAbsentTemp, RecTextTemp, RecNullSpeed}

RECURSIVE TablesOfLength(_)
TablesOfLength(n) ==
    IF n = 0 THEN {<<>>}
    ELSE {Append(t, r) : t \in TablesOfLength(n - 1), r \in RecordPool}

\* the contents the table may have: up to MaxRows records
TablePool == UNION {TablesOfLength(n) : n \in 0..MaxRows}

NoFetch == [isNull |-> TRUE]

\* a state of the application that is null, or holds a value
Null == [isNull |-> TRUE]
Some(v) == [isNull |-> FALSE, value |-> v]

\* the application before the mount fetch returns: the bundled dataset,
\* datasetSource 'Local', no row count, no row ids, no error.  tableRead
\* says that the present content of the table has been fetched, fetches
\* counts the fetches, lastOk is the data of the latest fetch that succeeded
LoaderInit ==
    /\ InitEngine
    /\ clampCall = NoClampCall
    /\ api = NoApi
    /\ \E t \in TablePool :
          loader = [isNull |-> FALSE, table |-> t, fetch |-> NoFetch,
                    tableRead |-> FALSE, fetches |-> 0,
                    datasetSource |-> "Local", datasetRowCount |-> Null,
                    datasetRowIds |-> Null, datasetError |-> Null,
                    lastOk |-> Null]

\* loadFromSupabase, the fetch succeeds: the dataset is replaced, the source
\* becomes 'Supabase' with the row count and ids of the data, the inputs are
\* clamped and the result is recomputed
LoadSucceeds ==
    /\ calls < MaxCalls
    /\ loader.fetches + 1 < MaxCalls
    /\ LET r == fetchBaselineDataset(loader.table)
       IN  /\ r.ok
           /\ loader' = [loader EXCEPT !.fetch = r,
                                       !.tableRead = TRUE,
                                       !.fetches = @ + 1,
                                       !.datasetSource = "Supabase",
                                       !.datasetRowCount = Some(r.rowCount),
                                       !.datasetRowIds = Some(r.rowIds),
                                       !.datasetError = Null,
                                       !.lastOk = Some(r.data)]
           /\ CallEngine(ClampInputs(inputs), SomeDataset(r.data), specs)
    /\ UNCHANGED <<clampCall, api>>

\* LoadFails that clears the dataset when the fetch fails
LoadFailsClearingDataset ==
    /\ calls < MaxCalls
    /\ loader.fetches + 1 < MaxCalls
    /\ LET r == fetchBaselineDataset(loader.table)
       IN  /\ ~r.ok
           /\ loader' = [loader EXCEPT !.fetch = r,
                                       !.tableRead = TRUE,
                                       !.fetches = @ + 1,
                                       !.datasetSource = "Local",
                                       !.datasetRowCount = Null,
                                       !.datasetRowIds = Null,
                                       !.datasetError = Some(r.error)]
           /\ CallEngine(ClampInputs(inputs), SomeDataset(<<>>), specs)
    /\ UNCHANGED <<clampCall, api>>

\* loadFromSupabase, the fetch fails: the source is set to 'Local', the error
\* is stored, row count and ids are reset, the existing dataset is kept
LoadFails ==
    /\ loader.fetches + 1 < MaxCalls
    /\ LET r == fetchBaselineDataset(loader.table)
       IN  /\ ~r.ok
           /\ loader' = [loader EXCEPT !.fetch = r,
                                       !.tableRead = TRUE,
                                       !.fetches = @ + 1,
                                       !.datasetSource = "Local",
                                       !.datasetRowCount = Null,
                                       !.datasetRowIds = Null,
                                       !.datasetError = Some(r.error)]
    /\ UNCHANGED <<inputs, dataset, specs, result, prev, calls, passed, clampCall, api>>

\* the contents the table may have after an edit of content t: emptied,
\* its first record deleted, or one record inserted at the end
TablesAfter(t) ==
    ({<<>>}
     \cup (IF t = <<>> THEN {} ELSE {Tail(t)})
     \cup (IF Len(t) < MaxRows
           THEN {Append(t, r) : r \in {RecB, RecTextTemp}} ELSE {}))
    \ {t}

\* the table is edited between two fetches (Refresh reads it again)
TableChanges ==
    /\ loader.tableRead
    /\ loader.fetches + 1 < MaxCalls
    /\ \E t \in TablesAfter(loader.table) :
          loader' = [loader EXCEPT !.table = t, !.tableRead = FALSE]
    /\ UNCHANGED <<inputs, dataset, specs, result, prev, calls, passed, clampCall, api>>

LoaderNext == LoadSucceeds \/ LoadFails \/ TableChanges

LoaderSpec == LoaderInit /\ [][LoaderNext]_vars

(***************************************************************************)
(* clamp called on its own                                                 *)
(***************************************************************************)
MaxClamp == 4

\* a value and bounds min <= max; value ranges from below every bound to
\* above every bound
ClampCalls ==
    UNION {{[isNull |-> FALSE, value |-> v, min |-> lo, max |-> hi,
             returned |-> <<>>] :
               v \in (0 - 2)..(MaxClamp + 2), hi \in lo..MaxClamp} :
           lo \in 0..MaxClamp}

ClampInit ==
    /\ InitEngine
    /\ loader = NoLoader
    /\ api = NoApi
    /\ clampCall \in ClampCalls

\* clamp is applied to the value, and then once more to what it returned
ApplyClamp ==
    /\ Len(clampCall.returned) < 2
    /\ LET v == IF clampCall.returned = <<>> THEN clampCall.value
                 ELSE clampCall.returned[Len(clampCall.returned)]
       IN  clampCall' =
              [clampCall EXCEPT !.returned =
                  Append(@, clamp(v, clampCall.min, clampCall.max))]
    /\ UNCHANGED <<inputs, dataset, specs, result, prev, calls, passed, loader, api>>

ClampNext == ApplyClamp

ClampSpec == ClampInit /\ [][ClampNext]_vars

(***************************************************************************)
(* The prediction API (chillerApi.ts) and the application's debounced      *)
(* request effect (part_001)                                               *)
(***************************************************************************)
\* the parameters the effect hands to fetchChillerPrediction
PredictParams(in) ==
    [windSpeed |-> in.windSpeed, cfm |-> in.flowRate * 1000,
     orientation |-> in.windDirection, spacing |-> in.rowSpacing]

\* what the server may answer: the twenty temperatures, a body that lacks
\* "Chiller 20", a status that is not ok, or no answer (fetch throws)
ResponsePool ==
    {[kind |-> "json", temps |-> [i \in 1..DATASET_SIZE |-> NumberCell(UniformTemps[i])]],
     [kind |-> "json", temps |-> [i \in 1..DATASET_SIZE |->
                                    IF i = DATASET_SIZE THEN AbsentCell
                                    ELSE NumberCell(UniformTemps[i])]],
     [kind |-> "status", temps |-> <<>>],
     [kind |-> "throw", temps |-> <<>>]}

\* fetchChillerPrediction: the row [windSpeed, cfm, orientation, spacing,
\* T0..T19] built from the parameters of the request and the answer
fetchChillerPrediction(params, response) ==
    IF response.kind = "throw"
    THEN [ok |-> FALSE, row |-> <<>>, error |-> "Failed to fetch"]
    ELSE IF response.kind = "status"
    THEN [ok |-> FALSE, row |-> <<>>, error |-> "API status"]
    ELSE IF \E i \in 1..DATASET_SIZE : response.temps[i].kind # "number"
    THEN [ok |-> FALSE, row |-> <<>>, error |-> "Missing or invalid key in response"]
    ELSE [ok |-> TRUE,
          row |-> <<params.windSpeed, params.cfm, params.orientation, params.spacing>>
                     \o [i \in 1..DATASET_SIZE |-> response.temps[i].value],
          error |-> ""]

\* the inputs the user may set while the prediction API is in use
ApiInputsPool ==
    {InitialInputs,
     [InitialInputs EXCEPT !.colSpacing = 12],
     [InitialInputs EXCEPT !.windSpeed = 6, !.flowRate = 130],
     [InitialInputs EXCEPT !.windDirection = 90, !.rowSpacing = 16]}

\* the application in prediction-API mode after its first render: the
\* effect has set the debounce timer for the initial inputs.  timers are the
\* timers not yet fired, ref is apiDebounceRef.current, inflight are the
\* requests awaiting their answer, answered is the id of the request whose
\* answer was handled last
ApiInit ==
    /\ InitEngine
    /\ loader = NoLoader
    /\ clampCall = NoClampCall
    /\ api = [isNull |-> FALSE,
              timers |-> {[id |-> 1, params |-> PredictParams(InitialInputs)]},
              ref |-> Some(1), inflight |-> {}, nextId |-> 2,
              apiRow |-> Null, apiError |-> Null, apiLoading |-> FALSE,
              answered |-> 0]

\* clearTimeout(apiDebounceRef.current) when the ref is set
ClearTimer(timers, ref) ==
    IF ref.isNull THEN timers ELSE {t \in timers : t.id # ref.value}

\* the user changes the inputs: the result is recomputed and, when one of
\* the four parameters changed, the effect is cleaned up and run again:
\* the timer the ref names is cleared and a new timer is set
ApiInputsChange ==
    /\ calls < MaxCalls
    /\ \E in \in ApiInputsPool \ {inputs} :
          /\ CallEngine(in, dataset, specs)
          /\ api' = IF PredictParams(in) = PredictParams(inputs) THEN api
                    ELSE [api EXCEPT
                            !.timers = ClearTimer(api.timers, api.ref)
                                          \cup {[id |-> api.nextId,
                                                 params |-> PredictParams(in)]},
                            !.ref = Some(api.nextId),
                            !.nextId = @ + 1]
    /\ UNCHANGED <<loader, clampCall>>

\* a debounce timer fires: the callback issues the request with the
\* parameters of the render that set the timer
TimerFires ==
    /\ \E t \in api.timers :
          api' = [api EXCEPT !.timers = @ \ {t},
                             !.inflight = @ \cup {t},
                             !.apiLoading = TRUE,
                             !.apiError = Null]
    /\ UNCHANGED <<inputs, dataset, specs, result, prev, calls, passed, loader, clampCall>>

\* the answer to a request in flight arrives and the callback resumes
ResponseArrives ==
    /\ \E q \in api.inflight, response \in ResponsePool :
          LET r == fetchChillerPrediction(q.params, response)
          IN  api' = [api EXCEPT !.inflight = @ \ {q},
                                 !.apiLoading = FALSE,
                                 !.apiRow = IF r.ok THEN Some(r.row) ELSE Null,
                                 !.apiError = IF r.ok THEN @ ELSE Some(r.error),
                                 !.ref = Null,
                                 !.answered = q.id]
    /\ UNCHANGED <<inputs, dataset, specs, result, prev, calls, passed, loader, clampCall>>

ApiNext == ApiInputsChange \/ TimerFires \/ ResponseArrives

ApiSpec == ApiInit /\ [][ApiNext]_vars

(***************************************************************************)
(* Vocabulary of the properties                                            *)
(***************************************************************************)
DatasetEmpty == dataset.isNull \/ dataset.rows = <<>>

\* the documented defaults used when no specs are given
DocumentedDefaults ==
    [ratedCapacity |-> 500, ratedEnteringTemp |-> 9500, deratingSlope |-> 15,
     lockoutTemp |-> 12700, designLoad |-> 2000]

UsedSpecs == IF specs = NoSpecs THEN DocumentedDefaults ELSE specs

Cells == 1..Len(result.grid)

\* the row the call matched, and the intake temperature (unrounded, 1/100 F)
\* of the cell held in grid[k]
MatchedRow == dataset.rows[result.matchedRowIndex + 1]
IntakeTempF(k) == kelvinToF(RawTempK(MatchedRow, k - 1, inputs))

\* the inputs carry exactly the four parameters of row R
SameParameters(R, in) ==
    /\ in.windSpeed = R[1]
    /\ in.flowRate * 1000 = R[2]
    /\ Orientation(in.windDirection) = R[3]
    /\ in.rowSpacing = R[4]

NativeGrid(in) ==
    /\ in.rows = 4
    /\ in.columns = 5
    /\ Len(in.layout) = 20
    /\ \A i \in 1..20 : in.layout[i]

\* grid temperatures are those of row R within 0.05 F
ShowsTempsOf(R) ==
    /\ Len(result.grid) = 20
    /\ \A i \in 0..19 :
          Abs(result.grid[i + 1].totalTemp - kelvinToF(R[5 + i])) <= 5

\* the first row of the dataset with the four parameters of row k
FirstWithParametersOf(k) ==
    CHOOSE f \in 1..k :
        /\ SubSeq(dataset.rows[f], 1, 4) = SubSeq(dataset.rows[k], 1, 4)
        /\ \A j \in 1..(f - 1) :
              SubSeq(dataset.rows[j], 1, 4) # SubSeq(dataset.rows[k], 1, 4)

\* normalized squared distance (times 360^2) with divisors 10, 120000, 90, 20
NormDist(R, in) ==
    Sq(R[1] - in.windSpeed) * 1296
    + Sq((R[2] - in.flowRate * 1000) \div 1000) * 9
    + Sq(R[3] - Orientation(in.windDirection)) * 16
    + Sq(R[4] - in.rowSpacing) * 324

RECURSIVE SumActiveCapacity(_, _)
SumActiveCapacity(grid, k) ==
    IF k = 0 THEN 0
    ELSE SumActiveCapacity(grid, k - 1)
         + (IF grid[k].isActive THEN grid[k].effectiveCapacity ELSE 0)

AnyStatus(st) == \E k \in Cells : result.grid[k].status = st

Rank(label) ==
    CASE label = "INTACT" -> 0
      [] label = "ERODED" -> 1
      [] label = "LOST" -> 2
      [] label = "CRITICAL" -> 3

\* the previous call had the same inputs and the same dataset
SameInputsAndDataset ==
    /\ ~prev.isNull
    /\ prev.inputs = inputs
    /\ prev.dataset = dataset

(***************************************************************************)
(* C1                                                                      *)
(***************************************************************************)
\* C1 as stated: when the inputs carry the four parameters of a row R of a
\* non-empty dataset on the native all-active 4x5 grid, the call selects R
\* itself (matchedRowIndex is the index of R) and every cell shows
\* kelvinToF(R[4+i]) within 0.05 F.
C1_ExactMatchSelectsThatRow ==
    ~DatasetEmpty =>
        \A k \in 1..Len(dataset.rows) :
            (SameParameters(dataset.rows[k], inputs) /\ NativeGrid(inputs))
            => /\ result.matchedRowIndex = k - 1
               /\ ShowsTempsOf(dataset.rows[k])

\* C1 amended: under the same conditions the call selects the first row of
\* the dataset that carries the four parameters of R (R itself when no earlier
\* row carries them), and every cell shows kelvinToF of that row's temperature
\* within 0.05 F.
C1_ExactMatchSelectsFirstSuchRow ==
    ~DatasetEmpty =>
        \A k \in 1..Len(dataset.rows) :
            (SameParameters(dataset.rows[k], inputs) /\ NativeGrid(inputs))
            => LET f == FirstWithParametersOf(k)
               IN  /\ result.matchedRowIndex = f - 1
                   /\ ShowsTempsOf(dataset.rows[f])

\* an exact match on the second row of a dataset, shown with rounded temperatures
C1_Witness ==
    /\ ~DatasetEmpty
    /\ NativeGrid(inputs)
    /\ result.matchedRowIndex = 1
    /\ SameParameters(dataset.rows[2], inputs)
    /\ \E k \in Cells : result.grid[k].totalTemp # IntakeTempF(k)

(***************************************************************************)
(* C2                                                                      *)
(***************************************************************************)
\* C2: on a non-empty dataset matchedRowIndex is the smallest index whose
\* normalized squared distance to the inputs is minimal: no row is strictly
\* closer and every earlier row is strictly farther.
C2_NearestRowFirstOnTies ==
    ~DatasetEmpty =>
        LET m == result.matchedRowIndex + 1
        IN  /\ m \in 1..Len(dataset.rows)
            /\ \A j \in 1..Len(dataset.rows) :
                  /\ NormDist(dataset.rows[j], inputs) >= NormDist(dataset.rows[m], inputs)
                  /\ j < m => NormDist(dataset.rows[j], inputs) > NormDist(dataset.rows[m], inputs)

\* two different rows at the same non-zero minimal distance; the earlier is matched
C2_Witness ==
    /\ ~DatasetEmpty
    /\ Len(dataset.rows) = 2
    /\ result.matchedRowIndex = 0
    /\ dataset.rows[1] # dataset.rows[2]
    /\ NormDist(dataset.rows[1], inputs) = NormDist(dataset.rows[2], inputs)
    /\ NormDist(dataset.rows[1], inputs) > 0

(***************************************************************************)
(* C3                                                                      *)
(***************************************************************************)
\* C3: an empty or absent dataset yields the zero-value result
\* (matchedRowIndex -1, empty grid, zero aggregates, label INTACT, risk Low),
\* and matchedRowIndex = -1 is returned for no other dataset.
C3_EmptyDatasetZeroResult ==
    /\ DatasetEmpty =>
          /\ result.matchedRowIndex = -1
          /\ result.grid = <<>>
          /\ result.maxTempRise = 0
          /\ result.avgTempRise = 0
          /\ result.maxTotalTemp = inputs.ambientTemp
          /\ result.riskLevel = "Low"
          /\ result.capacity.totalRatedCapacity = 0
          /\ result.capacity.totalEffectiveCapacity = 0
          /\ result.capacity.capacityLossPct = 0
          /\ result.capacity.redundancyStatus = 0
          /\ result.capacity.redundancyLabel = "INTACT"
          /\ result.capacity.chillersAtRisk = 0
          /\ result.capacity.chillersLockedOut = 0
          /\ result.benchmark.effectiveLengthMeters = 0
          /\ result.benchmark.predictedMaxRiseF = 0
          /\ result.benchmark.predictedAvgRiseF = 0
    /\ result.matchedRowIndex = -1 => DatasetEmpty

\* a call with an empty dataset right after a call that had rows to match
C3_Witness ==
    /\ DatasetEmpty
    /\ ~prev.isNull
    /\ prev.result.matchedRowIndex >= 0
    /\ result.matchedRowIndex = -1

(***************************************************************************)
(* C4                                                                      *)
(***************************************************************************)
\* C4: a call without specs returns exactly the result of the call with the
\* same inputs and dataset and specs {500, 95, 1.5, 127, 2000}.
C4_AbsentSpecsAreTheDefaults ==
    (/\ SameInputsAndDataset
     /\ \/ specs = NoSpecs /\ prev.specs = DocumentedDefaults
        \/ specs = DocumentedDefaults /\ prev.specs = NoSpecs)
    => result = prev.result

\* a call without specs on a matched row, right after the call with the defaults
C4_Witness ==
    /\ SameInputsAndDataset
    /\ specs = NoSpecs
    /\ prev.specs = DocumentedDefaults
    /\ ~DatasetEmpty
    /\ Len(result.grid) = 20

Derating(k) ==
    Min(Max(0, IntakeTempF(k) - UsedSpecs.ratedEnteringTemp)
            * UsedSpecs.deratingSlope, 100000)

StatusBelowLockout(k) ==
    IF IntakeTempF(k) >= UsedSpecs.lockoutTemp - 500 THEN "AtRisk"
    ELSE IF Derating(k) > 10000 THEN "Degraded"
    ELSE "Healthy"

BelowLockout(k) ==
    result.grid[k].isActive /\ IntakeTempF(k) < UsedSpecs.lockoutTemp

\* C6 as stated: for every active cell below lockoutTemp,
\* deratingPct = min(max(0, temp - ratedEnteringTemp) * deratingSlope, 100),
\* effectiveCapacity = ratedCapacity * (1 - deratingPct/100), and the status
\* is AtRisk, else Degraded if deratingPct > 10, else Healthy.
C6_DeratingAsStated ==
    ~DatasetEmpty =>
        \A k \in Cells :
            BelowLockout(k) =>
                /\ result.grid[k].deratingPct = Derating(k)
                /\ result.grid[k].effectiveCapacity =
                      UsedSpecs.ratedCapacity * (100000 - result.grid[k].deratingPct)
                /\ result.grid[k].status = StatusBelowLockout(k)

\* C6 amended: for every active cell below lockoutTemp, with
\* d = min(max(0, temp - ratedEnteringTemp) * deratingSlope, 100), the node's
\* deratingPct is d rounded to one decimal, effectiveCapacity =
\* ratedCapacity * (1 - d/100) for the unrounded d, and the status is AtRisk
\* if temp >= lockoutTemp - 5, else Degraded if d > 10, else Healthy.
C6_DeratingRoundedOnNode ==
    ~DatasetEmpty =>
        \A k \in Cells :
            BelowLockout(k) =>
                /\ result.grid[k].deratingPct = ToFixed1(Derating(k), 1000)
                /\ result.grid[k].effectiveCapacity =
                      UsedSpecs.ratedCapacity * (100000 - Derating(k))
                /\ result.grid[k].status = StatusBelowLockout(k)

\* a cell derated by exactly 10 percent, Healthy
C6_Witness ==
    /\ ~DatasetEmpty
    /\ \E k \in Cells : /\ BelowLockout(k)
                        /\ Derating(k) = 10000
                        /\ result.grid[k].status = "Healthy"

(***************************************************************************)
(* C7                                                                      *)
(***************************************************************************)
\* C7: on a non-empty dataset the label is the first matching rule of
\* CRITICAL (a LockedOut cell, or total effective capacity below design load),
\* LOST (negative spare capacity), ERODED (an AtRisk cell, or redundancyStatus
\* below 1.0), INTACT; and it is INTACT exactly when no cell is LockedOut or
\* AtRisk and total effective capacity - design load >= ratedCapacity.
C7_RedundancyLabelRules ==
    ~DatasetEmpty =>
        LET c == result.capacity
            spare == c.totalEffectiveCapacity - UsedSpecs.designLoad * 100000
        IN  /\ c.redundancyLabel =
                  (IF AnyStatus("LockedOut")
                      \/ c.totalEffectiveCapacity < UsedSpecs.designLoad * 100000
                   THEN "CRITICAL"
                   ELSE IF spare < 0 THEN "LOST"
                   ELSE IF AnyStatus("AtRisk") \/ c.redundancyStatus < 100000
                   THEN "ERODED"
                   ELSE "INTACT")
            /\ c.redundancyLabel = "INTACT" <=>
                  /\ ~AnyStatus("LockedOut")
                  /\ ~AnyStatus("AtRisk")
                  /\ spare >= UsedSpecs.ratedCapacity * 100000

\* INTACT with exactly one spare chiller
C7_Witness ==
    /\ ~DatasetEmpty
    /\ result.capacity.redundancyLabel = "INTACT"
    /\ result.capacity.totalEffectiveCapacity - UsedSpecs.designLoad * 100000
          = UsedSpecs.ratedCapacity * 100000

(***************************************************************************)
(* C8                                                                      *)
(***************************************************************************)
\* C8: in every result riskLevel is determined by redundancyLabel alone:
\* ERODED gives Moderate, LOST gives High, CRITICAL gives Critical, INTACT Low.
C8_RiskFollowsLabel ==
    result.riskLevel =
        (CASE result.capacity.redundancyLabel = "ERODED" -> "Moderate"
           [] result.capacity.redundancyLabel = "LOST" -> "High"
           [] result.capacity.redundancyLabel = "CRITICAL" -> "Critical"
           [] result.capacity.redundancyLabel = "INTACT" -> "Low")

\* an ERODED result reported Moderate after a call whose result was Critical
C8_Witness ==
    /\ result.capacity.redundancyLabel = "ERODED"
    /\ result.riskLevel = "Moderate"
    /\ ~prev.isNull
    /\ prev.result.riskLevel = "Critical"

(***************************************************************************)
(* C9                                                                      *)
(***************************************************************************)
\* C9: totalEffectiveCapacity is the sum of effectiveCapacity over the active
\* nodes of grid, and capacityLossPct is 0 whenever every active cell is at or
\* below ratedEnteringTemp and below lockoutTemp.
C9_AggregateConsistency ==
    /\ result.capacity.totalEffectiveCapacity
          = SumActiveCapacity(result.grid, Len(result.grid))
    /\ (\A k \in Cells :
            result.grid[k].isActive =>
                /\ IntakeTempF(k) <= UsedSpecs.ratedEnteringTemp
                /\ IntakeTempF(k) < UsedSpecs.lockoutTemp)
       => result.capacity.capacityLossPct = 0

\* active cells none of which is derated, with a positive total
C9_Witness ==
    /\ ~DatasetEmpty
    /\ \E k \in Cells : result.grid[k].isActive
    /\ \E k \in Cells : ~result.grid[k].isActive
    /\ \A k \in Cells :
            result.grid[k].isActive =>
                /\ IntakeTempF(k) <= UsedSpecs.ratedEnteringTemp
                /\ IntakeTempF(k) < UsedSpecs.lockoutTemp
    /\ result.capacity.totalEffectiveCapacity > 0
    /\ result.capacity.capacityLossPct = 0

(***************************************************************************)
(* C10                                                                     *)
(***************************************************************************)
\* this call and the previous one differ only in specs.lockoutTemp
DifferOnlyInLockout ==
    /\ SameInputsAndDataset
    /\ specs # NoSpecs
    /\ prev.specs # NoSpecs
    /\ specs.lockoutTemp # prev.specs.lockoutTemp
    /\ [specs EXCEPT !.lockoutTemp = prev.specs.lockoutTemp] = prev.specs

\* C10: of two calls that differ only in specs.lockoutTemp, the one with the
\* higher lockoutTemp never has the label of higher rank
\* (INTACT < ERODED < LOST < CRITICAL).
C10_HigherLockoutNeverWorse ==
    DifferOnlyInLockout =>
        IF specs.lockoutTemp > prev.specs.lockoutTemp
        THEN Rank(result.capacity.redundancyLabel)
                <= Rank(prev.result.capacity.redundancyLabel)
        ELSE Rank(prev.result.capacity.redundancyLabel)
                <= Rank(result.capacity.redundancyLabel)

\* raising lockoutTemp took the label from CRITICAL to INTACT
C10_Witness ==
    /\ DifferOnlyInLockout
    /\ specs.lockoutTemp > prev.specs.lockoutTemp
    /\ prev.result.capacity.redundancyLabel = "CRITICAL"
    /\ result.capacity.redundancyLabel = "INTACT"

(***************************************************************************)
(* C11                                                                     *)
(***************************************************************************)
\* this call and the previous one differ only in windDirection, d against 360 - d
DifferOnlyInMirroredDirection ==
    /\ ~prev.isNull
    /\ prev.dataset = dataset
    /\ prev.specs = specs
    /\ inputs.windDirection # prev.inputs.windDirection
    /\ inputs.windDirection = 360 - prev.inputs.windDirection
    /\ [inputs EXCEPT !.windDirection = prev.inputs.windDirection] = prev.inputs

\* tempRise and totalTemp of every cell, in index order
GridTemps(grid) ==
    [k \in 1..Len(grid) |-> <<grid[k].tempRise, grid[k].totalTemp>>]

\* every whole windDirection d in [0, 360) and 360 - d fold to the same
\* orientation, which lies in [0, 90]
FoldIsSymmetric ==
    \A d \in 0..359 :
        /\ Orientation(d) = Orientation(360 - d)
        /\ Orientation(d) \in 0..90

\* C11: every windDirection d in [0, 360) and 360 - d fold to the same
\* orientation, which lies in [0, 90]; and two calls that differ only in
\* windDirection, d against 360 - d, return the same matchedRowIndex and the
\* same grid temperatures.
C11_OrientationSymmetry ==
    /\ FoldIsSymmetric
    /\ DifferOnlyInMirroredDirection =>
          /\ result.matchedRowIndex = prev.result.matchedRowIndex
          /\ GridTemps(result.grid) = GridTemps(prev.result.grid)

\* a call with windDirection 315 after the same call with 45, on a dataset
\* whose rows differ in orientation
C11_Witness ==
    /\ DifferOnlyInMirroredDirection
    /\ ~DatasetEmpty
    /\ Len(dataset.rows) = 2
    /\ dataset.rows[1][3] # dataset.rows[2][3]
    /\ inputs.windDirection = 315
    /\ Len(result.grid) = 20

(***************************************************************************)
(* C12                                                                     *)
(***************************************************************************)
\* C12: for bounds min <= max, clamp(v, min, max) lies in [min, max], equals
\* v when v is in [min, max], min when v < min and max when v > max; and
\* clamp applied to its own result returns that result.
C12_ClampCorrect ==
    (~clampCall.isNull /\ clampCall.returned # <<>>) =>
        LET v == clampCall.value
            lo == clampCall.min
            hi == clampCall.max
            r == clampCall.returned[1]
        IN  /\ lo <= r /\ r <= hi
            /\ (lo <= v /\ v <= hi) => r = v
            /\ v < lo => r = lo
            /\ v > hi => r = hi
            /\ Len(clampCall.returned) = 2 => clampCall.returned[2] = r

\* a value above the upper bound, clamped and clamped again, with min < max
C12_Witness ==
    /\ ~clampCall.isNull
    /\ Len(clampCall.returned) = 2
    /\ clampCall.min < clampCall.max
    /\ clampCall.value > clampCall.max
    /\ clampCall.returned[1] = clampCall.max

(***************************************************************************)
(* C14                                                                     *)
(***************************************************************************)
\* every field of the node is a number, a boolean or a string of its own,
\* none an object of the arguments
NodeOfScalars(n) ==
    /\ n.index \in Nat /\ n.row \in Nat /\ n.col \in Nat
    /\ n.tempRise \in Int /\ n.totalTemp \in Int
    /\ n.effectiveCapacity \in Int /\ n.deratingPct \in Int
    /\ n.isMax \in BOOLEAN /\ n.isActive \in BOOLEAN
    /\ n.status \in {"Healthy", "Degraded", "AtRisk", "LockedOut"}

SlotsOfActiveCells ==
    {SafeIndex(k - 1, inputs) : k \in {c \in Cells : result.grid[c].isActive}}

PrevMatchedRow == prev.dataset.rows[prev.result.matchedRowIndex + 1]

\* this call and the previous one have the same inputs and specs, and their
\* matched rows differ, but only in source temperatures of inactive cells
OnlyInactiveSourcesChanged ==
    /\ ~prev.isNull
    /\ prev.inputs = inputs
    /\ prev.specs = specs
    /\ ~DatasetEmpty
    /\ prev.result.matchedRowIndex >= 0
    /\ MatchedRow # PrevMatchedRow
    /\ SubSeq(MatchedRow, 1, 4) = SubSeq(PrevMatchedRow, 1, 4)
    /\ \A j \in 0..(DATASET_SIZE - 1) :
          MatchedRow[DATA_START_INDEX + j + 1] # PrevMatchedRow[DATA_START_INDEX + j + 1]
          => j \notin SlotsOfActiveCells

IsMaxFlags(grid) == [k \in 1..Len(grid) |-> grid[k].isMax]

\* C15: every inactive cell reports totalTemp = ambientTemp, is never flagged
\* isMax and has effectiveCapacity 0; and changing the source temperature of
\* inactive cells changes none of maxTempRise, maxTotalTemp, avgTempRise,
\* riskLevel, the fields of capacity and the isMax flags.
C15_InactiveCellsExcluded ==
    /\ \A k \in Cells :
          ~result.grid[k].isActive =>
              /\ result.grid[k].totalTemp = inputs.ambientTemp
              /\ ~result.grid[k].isMax
              /\ result.grid[k].effectiveCapacity = 0
    /\ OnlyInactiveSourcesChanged =>
          /\ result.maxTempRise = prev.result.maxTempRise
          /\ result.maxTotalTemp = prev.result.maxTotalTemp
          /\ result.avgTempRise = prev.result.avgTempRise
          /\ result.riskLevel = prev.result.riskLevel
          /\ result.capacity = prev.result.capacity
          /\ IsMaxFlags(result.grid) = IsMaxFlags(prev.result.grid)

\* the one inactive cell of the grid went from 104 F to 122 F at its source,
\* above every active cell, and the other cells are flagged isMax
C15_Witness ==
    /\ OnlyInactiveSourcesChanged
    /\ \E k \in Cells :
          /\ ~result.grid[k].isActive
          /\ IntakeTempF(k) > kelvinToF(PrevMatchedRow[DATA_START_INDEX + SafeIndex(k - 1, inputs) + 1])
          /\ \A c \in Cells \ {k} :
                /\ result.grid[c].isActive
                /\ result.grid[c].isMax
                /\ IntakeTempF(c) < IntakeTempF(k)

(***************************************************************************)
(* C16                                                                     *)
(***************************************************************************)
\* the two inputs have the same array geometry and the same windDirection
SameGeometry(a, b) ==
    /\ a.rows = b.rows
    /\ a.columns = b.columns
    /\ a.rowSpacing = b.rowSpacing
    /\ a.colSpacing = b.colSpacing
    /\ a.windDirection = b.windDirection

\* this call and the previous one differ only in inputs.colSpacing
DifferOnlyInColSpacing ==
    /\ ~prev.isNull
    /\ prev.dataset = dataset
    /\ prev.specs = specs
    /\ inputs.colSpacing # prev.inputs.colSpacing
    /\ [inputs EXCEPT !.colSpacing = prev.inputs.colSpacing] = prev.inputs

\* the result without its benchmark
OutsideBenchmark(r) == [r EXCEPT !.benchmark = 0]

ZeroBenchmark ==
    [source |-> "Watson & Charentenay (2019)", effectiveLengthMeters |-> 0,
     predictedMaxRiseF |-> 0, predictedAvgRiseF |-> 0]

\* C16 as stated: two calls with the same geometry and windDirection return
\* the same benchmark for any two datasets, an empty one included, and any
\* specs; and changing colSpacing changes nothing outside benchmark.
C16_BenchmarkOfGeometryOnly ==
    /\ (~prev.isNull /\ SameGeometry(prev.inputs, inputs))
          => result.benchmark = prev.result.benchmark
    /\ DifferOnlyInColSpacing
          => OutsideBenchmark(result) = OutsideBenchmark(prev.result)

\* C16 amended: two calls with the same geometry and windDirection return
\* the same benchmark for any two non-empty datasets and any specs; with an
\* empty or absent dataset the benchmark is the zero one (length 0, rises 0)
\* whatever the geometry; and changing colSpacing changes nothing outside
\* benchmark.
C16_BenchmarkOfGeometryOnNonEmpty ==
    /\ (/\ ~prev.isNull
        /\ SameGeometry(prev.inputs, inputs)
        /\ ~DatasetEmpty
        /\ ~IsEmptyDataset(prev.dataset))
          => result.benchmark = prev.result.benchmark
    /\ DatasetEmpty => result.benchmark = ZeroBenchmark
    /\ DifferOnlyInColSpacing
          => OutsideBenchmark(result) = OutsideBenchmark(prev.result)

\* the same geometry on another non-empty dataset gave another grid and the
\* same benchmark, which is not the zero one
C16_Witness ==
    /\ ~prev.isNull
    /\ SameGeometry(prev.inputs, inputs)
    /\ ~DatasetEmpty
    /\ ~IsEmptyDataset(prev.dataset)
    /\ prev.dataset # dataset
    /\ prev.result.grid # result.grid
    /\ result.benchmark.predictedMaxRiseF > 0
    /\ result.benchmark.effectiveLengthMeters > 0

(***************************************************************************)
(* C17                                                                     *)
(***************************************************************************)
\* this call and the previous one differ only in eftBase and/or fanExtension
DifferOnlyInDisplayFlags ==
    /\ ~prev.isNull
    /\ prev.dataset = dataset
    /\ prev.specs = specs
    /\ prev.inputs # inputs
    /\ [inputs EXCEPT !.eftBase = prev.inputs.eftBase,
                       !.fanExtension = prev.inputs.fanExtension] = prev.inputs

MissesTemperature(rec) ==
    \E i \in 1..DATASET_SIZE : rec.temps[i].kind \in {"null", "absent"}

\* C18: no row of the data returned by a successful fetchBaselineDataset
\* comes from a record that misses one of its 20 chiller temperatures, so
\* no such row is in the dataset passed to calculateSimulation.
C18_IncompleteRecordsExcluded ==
    (~loader.isNull /\ ~loader.fetch.isNull /\ loader.fetch.ok) =>
        /\ \A k \in 1..Len(loader.fetch.data) :
              ~MissesTemperature(loader.table[loader.fetch.rowIds[k]])
        /\ passed.dataset.rows = loader.fetch.data

(***************************************************************************)
(* C19                                                                     *)
(***************************************************************************)
\* row * 5 + col of the cell held in grid[k]
BaseIndex(k) ==
    ((k - 1) \div inputs.columns) * 5 + ((k - 1) % inputs.columns)

\* the slot 0..19 the claim gives the cell: clamp(row*5 + col, 0, 19)
ProjectedSlot(k) ==
    IF BaseIndex(k) < 0 THEN 0 ELSE IF BaseIndex(k) > 19 THEN 19 ELSE BaseIndex(k)

\* the temperature of that slot of the matched row, 1/100 F
ProjectedTempF(k) == kelvinToF(MatchedRow[4 + ProjectedSlot(k) + 1])

\* C19: on a non-empty dataset grid has exactly rows*columns nodes in index
\* order, node i has row = floor(i / columns) and col = i mod columns, and
\* its temperature is that of slot 4 + clamp(row*5 + col, 0, 19) of the
\* matched row; a cell whose row*5 + col exceeds 19 takes the last slot.
C19_GridProjection ==
    ~DatasetEmpty =>
        /\ Len(result.grid) = inputs.rows * inputs.columns
        /\ \A k \in Cells :
              LET n == result.grid[k]
              IN  /\ n.index = k - 1
                  /\ n.row = (k - 1) \div inputs.columns
                  /\ n.col = (k - 1) % inputs.columns
                  /\ n.tempRise = ToFixed1(ProjectedTempF(k) - inputs.ambientTemp, 100)
                  /\ n.isActive => n.totalTemp = ToFixed1(ProjectedTempF(k), 100)
                  /\ BaseIndex(k) > 19 =>
                        n.tempRise = ToFixed1(kelvinToF(MatchedRow[24]) - inputs.ambientTemp, 100)

\* a 5 x 4 grid: the cells of its last row lie beyond slot 19 and show T19,
\* which differs from the slot before and from the dataset ambient
C19_Witness ==
    /\ ~DatasetEmpty
    /\ inputs.rows = 5
    /\ inputs.columns = 4
    /\ Len(result.grid) = 20
    /\ BaseIndex(20) = 23
    /\ MatchedRow[24] # DATA_AMBIENT_K
    /\ MatchedRow[24] # MatchedRow[23]
    /\ result.grid[20].totalTemp = ToFixed1(kelvinToF(MatchedRow[24]), 100)
    /\ result.grid[17].totalTemp = result.grid[20].totalTemp

(***************************************************************************)
(* C20                                                                     *)
(***************************************************************************)
\* the temperature rise of the cell in grid[k] before rounding, 1/100 F
RiseF(k) == IntakeTempF(k) - inputs.ambientTemp

\* the grid-wide maximum rise over the active cells as the engine takes it:
\* of the rises before rounding, a negative rise counting as 0
MaxRiseOverActive ==
    LET S == {Max(0, RiseF(k)) : k \in {c \in Cells : result.grid[c].isActive}}
    IN  IF S = {} THEN 0 ELSE CHOOSE m \in S : \A x \in S : x <= m

\* C20 as stated: a cell is flagged isMax exactly when it is active and its
\* temperature rise is within 0.2 F of the grid-wide maximum rise over the
\* active cells.
C20_IsMaxWithinTolerance ==
    ~DatasetEmpty =>
        LET m == MaxRiseOverActive
        IN  \A k \in Cells :
                result.grid[k].isMax <=>
                    /\ result.grid[k].isActive
                    /\ RiseF(k) >= m - 20

\* C20 amended: a cell is flagged isMax exactly when it is active and its
\* reported tempRise, the rise rounded to one decimal, is at least the
\* grid-wide maximum rise minus 0.2 F, that maximum being taken over the
\* active cells before rounding with negative rises counted as 0.
C20_IsMaxRoundedRiseWithinTolerance ==
    ~DatasetEmpty =>
        LET m == MaxRiseOverActive
        IN  \A k \in Cells :
                result.grid[k].isMax <=>
                    /\ result.grid[k].isActive
                    /\ ToFixed1(RiseF(k), 100) >= m - 20

\* the hottest cell is flagged though its rounded rise is below the maximum,
\* and an active cell 0.18 F below the maximum is not flagged
C20_Witness ==
    /\ ~DatasetEmpty
    /\ \E k \in Cells :
          /\ result.grid[k].isMax
          /\ RiseF(k) = MaxRiseOverActive
          /\ result.grid[k].tempRise < MaxRiseOverActive
    /\ \E k \in Cells :
          /\ result.grid[k].isActive
          /\ ~result.grid[k].isMax
          /\ RiseF(k) = MaxRiseOverActive - 18

(***************************************************************************)
(* C21                                                                     *)
(***************************************************************************)
ActiveCells == {c \in Cells : result.grid[c].isActive}

\* the sum over the active cells among grid[1..k] of max(0, rise), unrounded
RECURSIVE SumFlooredRise(_)
SumFlooredRise(k) ==
    IF k = 0 THEN 0
    ELSE SumFlooredRise(k - 1)
         + (IF result.grid[k].isActive THEN Max(0, RiseF(k)) ELSE 0)

\* maxTempRise and avgTempRise are those of max(0, rise) over the active
\* cells, rounded to one decimal
StatsOfFlooredRises ==
    /\ result.maxTempRise = ToFixed1(MaxRiseOverActive, 100)
    /\ result.avgTempRise =
          (IF ActiveCells = {} THEN 0
           ELSE ToFixed1Ratio(SumFlooredRise(Len(result.grid)),
                              Cardinality(ActiveCells), 100))
    /\ result.maxTempRise >= 0
    /\ result.avgTempRise >= 0

BelowAmbient(k) == result.grid[k].isActive /\ IntakeTempF(k) < inputs.ambientTemp

\* C21 as stated: maxTempRise and avgTempRise are computed from max(0, rise)
\* over the active cells and are never negative, while an active cell whose
\* source temperature is below ambient reports a totalTemp below ambientTemp
\* and a negative tempRise.
C21_NegativeRiseReported ==
    ~DatasetEmpty =>
        /\ StatsOfFlooredRises
        /\ \A k \in Cells :
              BelowAmbient(k) =>
                  /\ result.grid[k].totalTemp < inputs.ambientTemp
                  /\ result.grid[k].tempRise < 0

\* C21 amended: the statistics are computed from max(0, rise) and are never
\* negative, while an active cell below ambient reports its temperature and
\* its rise unfloored but rounded to one decimal: totalTemp is the rounded
\* temperature, tempRise is the rounded rise, never positive, and negative as
\* soon as the temperature is at least 0.05 F below ambient.
C21_NegativeRiseReportedRounded ==
    ~DatasetEmpty =>
        /\ StatsOfFlooredRises
        /\ \A k \in Cells :
              BelowAmbient(k) =>
                  /\ result.grid[k].totalTemp = ToFixed1(IntakeTempF(k), 100)
                  /\ result.grid[k].tempRise = ToFixed1(RiseF(k), 100)
                  /\ result.grid[k].tempRise <= 0
                  /\ (RiseF(k) <= -5 => result.grid[k].tempRise < 0)

\* every active cell is below ambient, one of them by 18 F with a negative
\* tempRise and a totalTemp below ambient, while both statistics are 0
C21_Witness ==
    /\ ~DatasetEmpty
    /\ ActiveCells # {}
    /\ \A k \in ActiveCells : BelowAmbient(k)
    /\ \E k \in ActiveCells :
          /\ RiseF(k) = -1800
          /\ result.grid[k].tempRise = -1800
          /\ result.grid[k].totalTemp = inputs.ambientTemp - 1800
    /\ result.maxTempRise = 0
    /\ result.avgTempRise = 0

(***************************************************************************)
(* C22                                                                     *)
(***************************************************************************)
\* the aggregate formulas over the returned grid and capacity block
\* (capacities in 1/100000 ton, capacityLossPct in 1/1000 percent,
\* redundancyStatus in 1/100000 chiller), and CRITICAL when no cell is active
\* under a positive design load
AggregateFormulas ==
    LET activeCount == Cardinality(ActiveCells)
        rated == activeCount * UsedSpecs.ratedCapacity * 100000
        effective == result.capacity.totalEffectiveCapacity
    IN  /\ result.capacity.totalRatedCapacity = rated
        /\ result.capacity.capacityLossPct =
              (IF activeCount = 0 THEN 0
               ELSE (rated - effective) \div (rated \div 100000))
        /\ result.capacity.redundancyStatus =
              (effective - UsedSpecs.designLoad * 100000)
                  \div UsedSpecs.ratedCapacity
        /\ (activeCount = 0 /\ UsedSpecs.designLoad > 0
               => result.capacity.redundancyLabel = "CRITICAL")

\* C22 as stated: in every result totalRatedCapacity = active cells *
\* ratedCapacity, capacityLossPct = (rated - effective) / rated * 100 and 0
\* when no cell is active, redundancyStatus = (effective - designLoad) /
\* ratedCapacity, and with no active cell and designLoad > 0 the label is
\* CRITICAL.
C22_AggregateFormulas == AggregateFormulas

\* C22 amended: the same formulas and the same label, for a call on a
\* non-empty dataset.
C22_AggregateFormulasOnNonEmpty == ~DatasetEmpty => AggregateFormulas

\* a non-empty dataset, a grid of 20 cells none of which is active, a positive
\* design load: capacityLossPct is 0, redundancyStatus is negative, CRITICAL
C22_Witness ==
    /\ ~DatasetEmpty
    /\ Len(result.grid) = 20
    /\ ActiveCells = {}
    /\ UsedSpecs.designLoad > 0
    /\ result.capacity.capacityLossPct = 0
    /\ result.capacity.redundancyStatus < 0
    /\ result.capacity.redundancyLabel = "CRITICAL"

(***************************************************************************)
(* C24                                                                     *)
(***************************************************************************)
\* effectiveSpareCapacity of the returned capacity block, in 1/100000 ton
SpareCapacity ==
    result.capacity.totalEffectiveCapacity - UsedSpecs.designLoad * 100000

\* C24: no result carries redundancyLabel LOST or riskLevel High: the label
\* is INTACT, ERODED or CRITICAL and, whenever the spare capacity is
\* negative on a non-empty dataset, it is CRITICAL.
C24_LostNeverReturned ==
    /\ result.capacity.redundancyLabel \in {"INTACT", "ERODED", "CRITICAL"}
    /\ result.riskLevel \in {"Low", "Moderate", "Critical"}
    /\ (~DatasetEmpty /\ SpareCapacity < 0
           => result.capacity.redundancyLabel = "CRITICAL")

\* the spare capacity is negative and no chiller is locked out: the rule
\* LOST applies by its own condition, and the label is CRITICAL
C24_Witness ==
    /\ ~DatasetEmpty
    /\ SpareCapacity < 0
    /\ result.capacity.chillersLockedOut = 0
    /\ ActiveCells # {}
    /\ result.capacity.redundancyLabel = "CRITICAL"
    /\ result.riskLevel = "Critical"

(***************************************************************************)
(* C28                                                                     *)
(***************************************************************************)
\* every field of the specs in use is positive
PositiveSpecs ==
    /\ UsedSpecs.ratedCapacity > 0
    /\ UsedSpecs.ratedEnteringTemp > 0
    /\ UsedSpecs.deratingSlope > 0
    /\ UsedSpecs.lockoutTemp > 0
    /\ UsedSpecs.designLoad > 0

\* C28: for positive specs, every node has 0 <= deratingPct <= 100 and
\* 0 <= effectiveCapacity <= ratedCapacity, and the aggregates satisfy
\* 0 <= totalEffectiveCapacity <= totalRatedCapacity,
\* 0 <= capacityLossPct <= 100 and
\* chillersLockedOut + chillersAtRisk <= number of active cells.
C28_CapacityBounds ==
    PositiveSpecs =>
        /\ \A k \in Cells :
              /\ 0 <= result.grid[k].deratingPct
              /\ result.grid[k].deratingPct <= 100000
              /\ 0 <= result.grid[k].effectiveCapacity
              /\ result.grid[k].effectiveCapacity
                     <= UsedSpecs.ratedCapacity * 100000
        /\ 0 <= result.capacity.totalEffectiveCapacity
        /\ result.capacity.totalEffectiveCapacity
               <= result.capacity.totalRatedCapacity
        /\ 0 <= result.capacity.capacityLossPct
        /\ result.capacity.capacityLossPct <= 100000
        /\ result.capacity.chillersLockedOut + result.capacity.chillersAtRisk
               <= Cardinality(ActiveCells)

\* positive specs; a cell at the rated entering temperature at full
\* capacity, a cell whose loss is capped at 100 percent, a locked-out cell
\* and an inactive cell in one grid
C28_Witness ==
    /\ PositiveSpecs
    /\ \E k \in ActiveCells :
          /\ IntakeTempF(k) <= UsedSpecs.ratedEnteringTemp
          /\ result.grid[k].effectiveCapacity = UsedSpecs.ratedCapacity * 100000
    /\ \E k \in ActiveCells :
          /\ result.grid[k].status # "LockedOut"
          /\ result.grid[k].deratingPct = 100000
          /\ result.grid[k].effectiveCapacity = 0
    /\ result.capacity.capacityLossPct > 0
    /\ result.capacity.capacityLossPct < 100000

(***************************************************************************)
(* C25                                                                     *)
(***************************************************************************)
\* the largest rise of an active cell, each rise (intake temperature minus
\* ambientTemp) rounded to one decimal as a node reports it
MaxReportedRise ==
    LET S == {ToFixed1(RiseF(k), 100) : k \in ActiveCells}
    IN  CHOOSE m \in S : \A x \in S : x <= m

SomeActiveIsMax == \E k \in ActiveCells : result.grid[k].isMax

\* C25 as stated: whenever at least one cell is active, at least one active
\* cell is flagged isMax, including when every active cell is below ambient.
C25_SomeActiveCellIsMax ==
    (~DatasetEmpty /\ ActiveCells # {}) => SomeActiveIsMax

\* C25 amended: whenever at least one cell is active, some active cell is
\* flagged isMax exactly when the hottest active cell's reported rise is at
\* least -0.2 F, and then every hottest active cell is flagged; when every
\* active cell reports a rise below -0.2 F no cell is flagged.
C25_SomeActiveCellIsMaxUnlessAllBelowAmbient ==
    (~DatasetEmpty /\ ActiveCells # {}) =>
        /\ SomeActiveIsMax <=> MaxReportedRise >= -20
        /\ MaxReportedRise >= -20 =>
              \A k \in ActiveCells :
                  ToFixed1(RiseF(k), 100) = MaxReportedRise
                      => result.grid[k].isMax
        /\ MaxReportedRise < -20 =>
              \A k \in Cells : ~result.grid[k].isMax

\* every active cell is more than 14 F below ambient and no cell is flagged
C25_Witness ==
    /\ ~DatasetEmpty
    /\ ActiveCells # {}
    /\ \A k \in ActiveCells : RiseF(k) < -1400
    /\ \A k \in Cells : ~result.grid[k].isMax

(***************************************************************************)
(* C26                                                                     *)
(***************************************************************************)
\* the temperature slot (0..19) cell k of the grid reads, as the engine
\* computes it
SlotRead(k) == SafeIndex(k - 1, inputs)

Slots == 0..(DATASET_SIZE - 1)

\* the grid is one of the two locked 20-cell shapes
LockedShape ==
    \/ inputs.rows = 4 /\ inputs.columns = 5
    \/ inputs.rows = 5 /\ inputs.columns = 4

\* every slot is the source of exactly one cell, and every cell shows the
\* temperature of the slot it reads
ProjectionIsBijection ==
    /\ Len(result.grid) = DATASET_SIZE
    /\ \A s \in Slots : Cardinality({k \in Cells : SlotRead(k) = s}) = 1
    /\ \A k \in ActiveCells :
          result.grid[k].totalTemp
              = ToFixed1(kelvinToF(MatchedRow[DATA_START_INDEX + SlotRead(k) + 1]), 100)

\* C26: for both locked grid shapes, 4 x 5 and 5 x 4, the projection is a
\* bijection between the grid cells and the slots T0..T19 of the matched
\* row: every slot is the source of exactly one cell.
C26_ProjectionIsBijection ==
    (~DatasetEmpty /\ LockedShape) => ProjectionIsBijection

(***************************************************************************)
(* C29                                                                     *)
(***************************************************************************)
\* C29 as stated: for every active node, status = LockedOut exactly when the
\* returned totalTemp (rounded to one decimal) is >= lockoutTemp, and
\* status = AtRisk exactly when lockoutTemp - 5 <= totalTemp < lockoutTemp.
C29_StatusAgreesWithShownTemp ==
    ~DatasetEmpty =>
        \A k \in ActiveCells :
            /\ result.grid[k].status = "LockedOut"
                   <=> result.grid[k].totalTemp >= UsedSpecs.lockoutTemp
            /\ result.grid[k].status = "AtRisk"
                   <=> /\ UsedSpecs.lockoutTemp - 500 <= result.grid[k].totalTemp
                       /\ result.grid[k].totalTemp < UsedSpecs.lockoutTemp

\* C29 amended: for every active node the status is decided by the intake
\* temperature before rounding: LockedOut exactly when it is >= lockoutTemp,
\* AtRisk exactly when lockoutTemp - 5 <= temperature < lockoutTemp; the
\* returned totalTemp is that temperature rounded to one decimal, so it is
\* within 0.05 F of the deciding temperature and, when it is at least 0.1 F
\* away from a threshold, lies on the same side as the status says.
C29_StatusAgreesWithIntakeTemp ==
    ~DatasetEmpty =>
        \A k \in ActiveCells :
            /\ result.grid[k].status = "LockedOut"
                   <=> IntakeTempF(k) >= UsedSpecs.lockoutTemp
            /\ result.grid[k].status = "AtRisk"
                   <=> /\ UsedSpecs.lockoutTemp - 500 <= IntakeTempF(k)
                       /\ IntakeTempF(k) < UsedSpecs.lockoutTemp
            /\ result.grid[k].totalTemp = ToFixed1(IntakeTempF(k), 100)
            /\ Abs(result.grid[k].totalTemp - IntakeTempF(k)) <= 5
            /\ (result.grid[k].totalTemp >= UsedSpecs.lockoutTemp + 10
                   => result.grid[k].status = "LockedOut")
            /\ (result.grid[k].totalTemp <= UsedSpecs.lockoutTemp - 10
                   => result.grid[k].status # "LockedOut")

\* an active node shows exactly lockoutTemp - 5 and is not AtRisk: its
\* temperature before rounding is 0.04 F below that threshold
C29_Witness ==
    /\ ~DatasetEmpty
    /\ \E k \in ActiveCells :
          /\ result.grid[k].totalTemp = UsedSpecs.lockoutTemp - 500
          /\ IntakeTempF(k) = UsedSpecs.lockoutTemp - 504
          /\ result.grid[k].status \in {"Healthy", "Degraded"}

(***************************************************************************)
(* C23                                                                     *)
(***************************************************************************)
\* this step is a fetch that failed
FailedFetchStep ==
    /\ ~loader.isNull
    /\ loader'.fetches = loader.fetches + 1
    /\ ~loader'.fetch.ok

\* the dataset is the bundled one when no fetch has succeeded yet, and the
\* data of the latest successful fetch otherwise
DatasetIsBundledOrLatestFetched ==
    IF loader.lastOk.isNull THEN dataset \in BundledDatasets
    ELSE dataset = SomeDataset(loader.lastOk.value)

\* C23: a failed dataset fetch leaves the dataset unchanged, and after any
\* sequence of successful and failed fetches the dataset handed to
\* calculateSimulation is not empty: it is the bundled dataset or the data
\* of the most recent successful fetch.
C23_FailedFetchKeepsDataset ==
    /\ [](~loader.isNull =>
            /\ ~DatasetEmpty
            /\ passed.dataset = dataset
            /\ DatasetIsBundledOrLatestFetched)
    /\ [][FailedFetchStep => dataset' = dataset /\ result' = result]_vars

\* a fetch has succeeded, the table was edited, the next fetch failed: the
\* dataset is still the data of the fetch that succeeded
C23_Witness ==
    /\ ~loader.isNull
    /\ loader.fetches = 2
    /\ ~loader.fetch.ok
    /\ ~loader.lastOk.isNull
    /\ dataset = SomeDataset(loader.lastOk.value)
    /\ ~DatasetEmpty

(***************************************************************************)
(* C30                                                                     *)
(***************************************************************************)
\* the dataset in use is the data of a successful fetch (C23: the latest)
DatasetIsFetched == ~loader.lastOk.isNull /\ dataset = SomeDataset(loader.lastOk.value)

\* the dataset in use is the bundled one: no fetch has replaced it
DatasetIsBundled == loader.lastOk.isNull /\ dataset \in BundledDatasets

\* C30: after any sequence of dataset fetches, datasetSource is 'Supabase'
\* exactly when the current dataset is the data of a successful fetch, with
\* datasetRowCount and datasetRowIds describing that data, and 'Local'
\* exactly when the current dataset is the bundled local dataset.
C30_SourceDescribesDataset ==
    (~loader.isNull /\ loader.fetches > 0) =>
        /\ loader.datasetSource = "Supabase" <=> DatasetIsFetched
        /\ loader.datasetSource = "Local" <=> DatasetIsBundled
        /\ DatasetIsFetched =>
              /\ loader.datasetRowCount = Some(Len(dataset.rows))
              /\ ~loader.datasetRowIds.isNull
              /\ Len(loader.datasetRowIds.value) = Len(dataset.rows)

(***************************************************************************)
(* C27                                                                     *)
(***************************************************************************)
\* no debounce timer is pending and no request is in flight
ApiQuiet == api.timers = {} /\ api.inflight = {}

\* C27: in prediction-API mode, once no debounce timer is pending and no
\* request is in flight, the stored apiRow (when not null) carries in its
\* four leading fields the current windSpeed, flowRate * 1000, windDirection
\* and rowSpacing; and the answer to an older request never replaces the
\* answer to a newer one.
C27_ApiRowIsForCurrentInputs ==
    /\ []((~api.isNull /\ ApiQuiet /\ ~api.apiRow.isNull) =>
             SubSeq(api.apiRow.value, 1, 4)
                 = <<inputs.windSpeed, inputs.flowRate * 1000,
                     inputs.windDirection, inputs.rowSpacing>>)
    /\ [][~api.isNull => api'.answered >= api.answered]_vars

====
